---------------------------- MODULE Spec2Model ----------------------------
(***************************************************************************)
(* Boundary-tag allocator with an intrusive AVL index of free blocks       *)
(* (malloc.c, free.c, realloc.c, avl.c, include/malloc.h).                 *)
(*                                                                         *)
(* Memory is an array of 8-byte words.  Every header, footer, index-node   *)
(* field and user datum is one word of it, so that a node record really    *)
(* lives in the payload of its block and stale words stay where the code   *)
(* leaves them.  size_t and pointer arithmetic is modulo SizeMod (the      *)
(* model's 2^64).  The word just below the first break belongs to whoever  *)
(* owned the break before the allocator: get_prev() reads it, so its       *)
(* content is drawn from BelowWords.  An access outside the mapped range   *)
(* or a traversal that does not end is a trap: the process stops.          *)
(***************************************************************************)
EXTENDS Integers, Sequences, FiniteSets, TLC

\* ---- the process's state --------------------------------------------------
\* mem is the memory the OS maps for the process, free_root, g_heap_lo and
\* g_heap_hi the allocator's globals.
\* live maps each pointer the caller holds to the byte count n it asked for and
\* the size its block had when the pointer was returned; last is the latest
\* call (op its kind, or "trap" when the process stopped in it; call its kind
\* in either case; pointer given, request, result); ops counts the calls made.
VARIABLES mem, free_root, g_heap_lo, g_heap_hi, live, last, ops

vars == <<mem, free_root, g_heap_lo, g_heap_hi, live, last, ops>>

\* ---- program constants ------------------------------------------------
ALIGN == 16
HEADER_SIZE == 8
FOOTER_SIZE == 8
NODE_SIZE == 32
NULL == 0

\* ---- the model's machine -----------------------------------------------
SizeMod == 64 * ALIGN
LoAddr == 4 * ALIGN
MaxBlocks == 5
MaxOps == 7
MaxOpsBig == 4
MaxBlocksLaw == 7
MaxOpsLaw == 10
MaxNodes == 5
MaxOpsTree == 7

ALIGN_UP(x) == LET y == (x + (ALIGN - 1)) % SizeMod IN y - (y % ALIGN)
MIN_PAYLOAD_SIZE == ALIGN_UP(NODE_SIZE)
MIN_BLOCK_SIZE == ALIGN_UP(HEADER_SIZE + FOOTER_SIZE + MIN_PAYLOAD_SIZE)
SIZE_MAX == SizeMod - 1

\* The OS maps the word below the first break and cap bytes from it on, and
\* lets the break move no further; mem.w has a word for each 8 bytes mapped.
HeapCap == MaxBlocks * MIN_BLOCK_SIZE
MemBase == LoAddr - HEADER_SIZE
WordsFor(cap) == (LoAddr + cap - MemBase) \div 8
MemWords == Len(mem.w)
MemEnd == MemBase + 8 * MemWords

Add(a, b) == (a + b) % SizeMod
Sub(a, b) == (a - b + 2 * SizeMod) % SizeMod
\* size_t -> intptr_t, as sbrk() takes its increment
Signed(x) == IF x >= SizeMod \div 2 THEN x - SizeMod ELSE x

\* ---- memory --------------------------------------------------------------
\* m.w[i] is the word at address MemBase + 8*(i-1); m.trap records a fault.
Mapped(a) == a >= MemBase /\ a < MemEnd /\ (a - MemBase) % 8 = 0
Idx(a) == ((a - MemBase) \div 8) + 1
Trap(m) == [m EXCEPT !.trap = TRUE]
Touch(m, a) == IF Mapped(a) THEN m ELSE Trap(m)

\* include/malloc.h: get_value
get_value(m, ptr) == IF Mapped(ptr) THEN m.w[Idx(ptr)] ELSE 0
\* include/malloc.h: write_size (also every other one-word store)
write_size(m, ptr, v) ==
    IF Mapped(ptr) THEN [m EXCEPT !.w[Idx(ptr)] = v] ELSE Trap(m)
\* include/malloc.h: get_size
get_size(m, ptr) == LET v == get_value(m, ptr) IN v - (v % ALIGN)
get_hdrp(data) == Sub(data, HEADER_SIZE)
get_ftrp(m, data) ==
    Sub(Sub(Add(data, get_size(m, get_hdrp(data))), FOOTER_SIZE), HEADER_SIZE)
get_alloc(m, data) == get_value(m, get_hdrp(data)) % 2
get_next(m, data) == Add(data, get_size(m, get_hdrp(data)))
get_prev(m, data) ==
    Sub(data, get_size(m, Sub(Sub(data, HEADER_SIZE), FOOTER_SIZE)))

Or1(x) == IF x % 2 = 0 THEN x + 1 ELSE x
Clr1(x) == x - (x % 2)


\* ---- avl.c: the index of free blocks, nodes stored in the payloads ------
\* struct free_block { size_t size; int height; left_block; right_block; }
SizeOf(m, n) == get_value(m, n)
HeightOf(m, n) == get_value(m, Add(n, 8))
LeftOf(m, n) == get_value(m, Add(n, 16))
RightOf(m, n) == get_value(m, Add(n, 24))
SetSize(m, n, v) == write_size(m, n, v)
SetHeight(m, n, v) == write_size(m, Add(n, 8), v)
SetLeft(m, n, v) == write_size(m, Add(n, 16), v)
SetRight(m, n, v) == write_size(m, Add(n, 24), v)

\* A dereference of node pointer n: a trap unless its four words are mapped.
NodeOK(n) == Mapped(n) /\ Mapped(Add(n, 24))
Deref(m, n) == IF n = NULL \/ NodeOK(n) THEN m ELSE Trap(m)
\* memory after the reads of block and of the heights of its two children
DerefKids(m, block) ==
    Deref(Deref(Deref(m, block), LeftOf(m, block)), RightOf(m, block))
\* The deepest descent that ends: the index has one node per free block and
\* mapped memory holds no more than this many blocks, so a deeper descent has
\* come back to a node it has visited, and recurses (or loops) until the
\* process dies.
StackDepth == (8 * MemWords) \div MIN_BLOCK_SIZE

cmp(m, a, b) ==
    IF SizeOf(m, a) < SizeOf(m, b) THEN -1
    ELSE IF SizeOf(m, a) > SizeOf(m, b) THEN 1
    ELSE IF a < b THEN -1
    ELSE IF a > b THEN 1
    ELSE 0

height(m, block) == IF block = NULL THEN 0 ELSE HeightOf(m, block)

getBalance(m, block) ==
    IF block = NULL THEN 0
    ELSE height(m, RightOf(m, block)) - height(m, LeftOf(m, block))

\* memory after the reads getBalance(block) makes
getBalanceReads(m, block) == IF block = NULL THEN m ELSE DerefKids(m, block)

max(a, b) == IF a > b THEN a ELSE b

\* root->height = max(height(root->left_block), height(root->right_block)) + 1
UpdateHeight(m, root) ==
    SetHeight(DerefKids(m, root), root,
              max(height(m, LeftOf(m, root)), height(m, RightOf(m, root))) + 1)

rotate_left(m, root) ==
    IF root = NULL \/ RightOf(m, root) = NULL THEN [m |-> Deref(m, root), r |-> root]
    ELSE LET new_root == RightOf(m, root)
             moved_subtree == LeftOf(m, new_root)
         IN [m |-> UpdateHeight(
                     UpdateHeight(
                       SetRight(SetLeft(Deref(Deref(m, root), new_root), new_root, root),
                                root, moved_subtree),
                       root),
                     new_root),
             r |-> new_root]

rotate_right(m, root) ==
    IF root = NULL \/ LeftOf(m, root) = NULL THEN [m |-> Deref(m, root), r |-> root]
    ELSE LET new_root == LeftOf(m, root)
             moved_subtree == RightOf(m, new_root)
         IN [m |-> UpdateHeight(
                     UpdateHeight(
                       SetLeft(SetRight(Deref(Deref(m, root), new_root), new_root, root),
                               root, moved_subtree),
                       root),
                     new_root),
             r |-> new_root]

\* root->left_block = rotate_left(root->left_block); return rotate_right(root);
\* s is what the inner rotation yields.
rotate_left_right(s, root) == rotate_right(SetLeft(s.m, root, s.r), root)
\* root->right_block = rotate_right(root->right_block); return rotate_left(root);
rotate_right_left(s, root) == rotate_left(SetRight(s.m, root, s.r), root)

\* The four rotation cases of insert(), m being memory after the height
\* update; the child's balance is compared strictly.
insert_cases(m, root) ==
    LET balance == getBalance(m, root)
        left == LeftOf(m, root)
        right == RightOf(m, root)
    IN IF balance < -1 /\ getBalance(m, left) < 0
       THEN rotate_right(getBalanceReads(m, left), root)
       ELSE IF balance > 1 /\ getBalance(m, right) > 0
       THEN rotate_left(getBalanceReads(m, right), root)
       ELSE IF balance < -1 /\ getBalance(m, left) > 0
       THEN rotate_left_right(rotate_left(getBalanceReads(m, left), left), root)
       ELSE IF balance > 1 /\ getBalance(m, right) < 0
       THEN rotate_right_left(rotate_right(getBalanceReads(m, right), right), root)
       ELSE [m |-> m, r |-> root]

\* The tail of insert(): height update, then the rotation cases.
insert_rebalance(m, root) == insert_cases(UpdateHeight(m, root), root)

\* root->left_block (or right_block) = the subtree s the recursive call
\* yields, then the tail of insert().
insert_link(s, root, to_left) ==
    IF s.m.trap THEN s
    ELSE insert_rebalance(IF to_left THEN SetLeft(s.m, root, s.r)
                          ELSE SetRight(s.m, root, s.r), root)

RECURSIVE insert(_, _, _, _)
insert(m, root, memoryBlock, d) ==
    IF root = NULL THEN [m |-> m, r |-> memoryBlock]
    ELSE IF d = 0 THEN [m |-> Trap(m), r |-> root]
    ELSE IF Deref(Deref(m, root), memoryBlock).trap THEN [m |-> Trap(m), r |-> root]
    ELSE insert_link(insert(m, IF cmp(m, memoryBlock, root) < 0 THEN LeftOf(m, root)
                                  ELSE RightOf(m, root),
                            memoryBlock, d - 1),
                     root, cmp(m, memoryBlock, root) < 0)

RECURSIVE minValue(_, _, _)
minValue(m, current, d) ==
    IF d = 0 \/ ~NodeOK(current) THEN [m |-> Trap(m), r |-> current]
    ELSE IF LeftOf(m, current) # NULL THEN minValue(m, LeftOf(m, current), d - 1)
    ELSE [m |-> m, r |-> current]

\* The four rotation cases of delete(): as insert's, with <= 0 and >= 0 on
\* the child in the single-rotation cases.
delete_cases(m, root) ==
    LET balance == getBalance(m, root)
        left == LeftOf(m, root)
        right == RightOf(m, root)
    IN IF balance < -1 /\ getBalance(m, left) <= 0
       THEN rotate_right(getBalanceReads(m, left), root)
       ELSE IF balance > 1 /\ getBalance(m, right) >= 0
       THEN rotate_left(getBalanceReads(m, right), root)
       ELSE IF balance < -1 /\ getBalance(m, left) > 0
       THEN rotate_left_right(rotate_left(getBalanceReads(m, left), left), root)
       ELSE IF balance > 1 /\ getBalance(m, right) < 0
       THEN rotate_right_left(rotate_right(getBalanceReads(m, right), right), root)
       ELSE [m |-> m, r |-> root]

\* The tail of delete(): height update, then the rotation cases.
delete_rebalance(m, root) == delete_cases(UpdateHeight(m, root), root)

\* root->left_block (or right_block) = the subtree s the recursive call
\* yields; root stays the node at this place.
delete_link(s, root, to_left) ==
    IF s.m.trap THEN s
    ELSE [m |-> IF to_left THEN SetLeft(s.m, root, s.r) ELSE SetRight(s.m, root, s.r),
          r |-> root]

\* temp->right_block = root->right_block, after temp->left_block is set
take_right(m, root, temp) == SetRight(m, temp, RightOf(m, root))
\* temp->left_block = root->left_block; temp->right_block = root->right_block
take_children(m, root, temp) ==
    take_right(SetLeft(m, temp, LeftOf(m, root)), root, temp)

\* a variant of the step below that gives temp the right subtree as it was
\* before the successor was detached
delete_splice_stale(s, root, temp) ==
    IF s.m.trap THEN s
    ELSE [m |-> take_children(s.m, root, temp), r |-> temp]

\* Two children: s is what deleting the successor temp from the right subtree
\* yields; temp takes root's place.
delete_splice(s, root, temp) ==
    IF s.m.trap THEN s
    ELSE [m |-> take_children(SetRight(s.m, root, s.r), root, temp), r |-> temp]

\* if (!root) return NULL; then the tail of delete().  x = [m, r] is memory
\* and the node at this place after the removal.
delete_tail(x) ==
    IF x.m.trap \/ x.r = NULL THEN x ELSE delete_rebalance(x.m, x.r)

RECURSIVE delete(_, _, _, _)
RECURSIVE delete_successor(_, _, _)
RECURSIVE delete_here(_, _, _, _)
\* t is what minValue(root->right_block) yields
delete_successor(t, root, d) ==
    IF t.m.trap THEN t
    ELSE delete_splice(delete(t.m, RightOf(t.m, root), t.r, d - 1), root, t.r)

\* the removal proper: descend, or unlink root
delete_here(m, root, memoryBlock, d) ==
    IF cmp(m, memoryBlock, root) # 0
    THEN delete_link(delete(m, IF cmp(m, memoryBlock, root) < 0 THEN LeftOf(m, root)
                                  ELSE RightOf(m, root),
                            memoryBlock, d - 1),
                     root, cmp(m, memoryBlock, root) < 0)
    ELSE IF LeftOf(m, root) = NULL \/ RightOf(m, root) = NULL
    THEN [m |-> m,
          r |-> IF LeftOf(m, root) # NULL THEN LeftOf(m, root) ELSE RightOf(m, root)]
    ELSE delete_successor(minValue(m, RightOf(m, root), d - 1), root, d)

delete(m, root, memoryBlock, d) ==
    IF root = NULL THEN [m |-> m, r |-> NULL]
    ELSE IF d = 0 THEN [m |-> Trap(m), r |-> root]
    ELSE IF Deref(Deref(m, root), memoryBlock).trap THEN [m |-> Trap(m), r |-> root]
    ELSE delete_tail(delete_here(m, root, memoryBlock, d))

RECURSIVE best_fit_loop(_, _, _, _, _)
best_fit_loop(m, root, size, best, d) ==
    IF root = NULL THEN [m |-> m, r |-> best]
    ELSE IF d = 0 \/ ~NodeOK(root) THEN [m |-> Trap(m), r |-> best]
    ELSE IF SizeOf(m, root) >= size
         THEN best_fit_loop(m, LeftOf(m, root), size, root, d - 1)
         ELSE best_fit_loop(m, RightOf(m, root), size, best, d - 1)

best_fit(m, root, size) == best_fit_loop(m, root, size, NULL, StackDepth)

\* *root = delete(*root, best): s is what delete yields
pop_unlink(s, best) == [m |-> s.m, root |-> s.r, r |-> best]
\* b is what best_fit yields
pop_found(b, root) ==
    IF b.r = NULL \/ b.m.trap THEN [m |-> b.m, root |-> root, r |-> b.r]
    ELSE pop_unlink(delete(b.m, root, b.r, StackDepth), b.r)

\* pop_best_fit(&root, size): [m, root, r] with r the block found (or NULL)
pop_best_fit(m, root, size) == pop_found(best_fit(m, root, size), root)


\* ---- malloc.c ------------------------------------------------------------
\* A process state s is [m, root, lo, hi]: memory, free_root, g_heap_lo,
\* g_heap_hi.  A handler yields [s, ret].

\* write_size(get_ftrp(end), v), get_ftrp reading the header as it then is
write_footer(m, end, v) == write_size(m, get_ftrp(m, end), v)
\* write_size(get_hdrp(first), v); write_size(get_ftrp(end), v);
write_tags(m, first, end, v) ==
    write_footer(write_size(m, get_hdrp(first), v), end, v)

\* node->size = size; node->height = 1; node->left_block = node->right_block = NULL
init_node(m, node, size) ==
    SetRight(SetLeft(SetHeight(SetSize(m, node, size), node, 1), node, NULL), node, NULL)

\* free_root = insert(free_root, node), on memory m; the call then returns ret
set_root(s, t, ret) == [s |-> [s EXCEPT !.m = t.m, !.root = t.r], ret |-> ret]
insert_root(s, m, node, ret) ==
    IF m.trap THEN [s |-> [s EXCEPT !.m = m], ret |-> ret]
    ELSE set_root(s, insert(m, s.root, node, StackDepth), ret)

\* sbrk(): the break is LoAddr before the first extension and g_heap_hi
\* afterwards.  The increment is signed; the OS declines the call when the
\* new break would leave [LoAddr, MemEnd].
BrkOf(s) == IF s.lo = NULL THEN LoAddr ELSE s.hi
SbrkOK(s, size) ==
    /\ BrkOf(s) + Signed(size) <= MemEnd
    /\ BrkOf(s) + Signed(size) >= LoAddr

\* a variant of allocate_heap that takes the break as moved without testing
\* what sbrk returned
allocate_heap_unchecked(s, size) ==
    LET brk == BrkOf(s)
        allocated_block == Add(brk, HEADER_SIZE)
    IN [s |-> [m |-> write_tags(s.m, allocated_block, allocated_block, Or1(size)),
               root |-> s.root,
               lo |-> IF s.lo = NULL THEN brk ELSE s.lo,
               hi |-> brk + Signed(size)],
        ret |-> allocated_block]

allocate_heap(s, size) ==
    IF ~SbrkOK(s, size) THEN [s |-> s, ret |-> NULL]
    ELSE LET brk == BrkOf(s)
             allocated_block == Add(brk, HEADER_SIZE)
         IN [s |-> [m |-> write_tags(s.m, allocated_block, allocated_block, Or1(size)),
                    root |-> s.root,
                    lo |-> IF s.lo = NULL THEN brk ELSE s.lo,
                    hi |-> brk + Signed(size)],
             ret |-> allocated_block]

split_block(s, free_block, size) ==
    LET block == free_block
        rem == Sub(SizeOf(s.m, free_block), size)
        rem_block == Add(block, size)
    IN insert_root(s,
                   init_node(write_tags(write_tags(Deref(s.m, free_block),
                                                   block, block, Or1(size)),
                                        rem_block, rem_block, rem),
                             rem_block, rem),
                   rem_block, block)

\* a variant of the computation below that does not raise the result to
\* MIN_BLOCK_SIZE
BlockSizeUnraised(size) == ALIGN_UP(Add(Add(HEADER_SIZE, FOOTER_SIZE), size))

\* block_size as my_malloc (and my_realloc) compute it from the request
BlockSizeFor(size) ==
    LET b == ALIGN_UP(Add(Add(HEADER_SIZE, FOOTER_SIZE), size))
    IN IF b < MIN_BLOCK_SIZE THEN MIN_BLOCK_SIZE ELSE b

\* my_malloc after pop_best_fit has yielded pb = [m, root, r]
malloc_found(s, pb, block_size) ==
    LET s1 == [s EXCEPT !.m = pb.m, !.root = pb.root]
        best_block == pb.r
    IN IF pb.m.trap THEN [s |-> s1, ret |-> NULL]
       ELSE IF best_block = NULL THEN allocate_heap(s1, block_size)
       ELSE IF Sub(SizeOf(pb.m, best_block), block_size) >= MIN_BLOCK_SIZE
            THEN split_block(s1, best_block, block_size)
       ELSE [s |-> [s1 EXCEPT !.m = write_tags(pb.m, best_block, best_block,
                                               Or1(SizeOf(pb.m, best_block)))],
             ret |-> best_block]

my_malloc(s, size) ==
    malloc_found(s, pop_best_fit(s.m, s.root, BlockSizeFor(size)), BlockSizeFor(size))

\* ---- free.c --------------------------------------------------------------
in_heap(s, ptr) == ptr >= s.lo /\ ptr < s.hi

\* The three merges, d = [m, r] being memory and free_root after the delete
\* calls and size the size of block; each yields [m, root, r], r the merged
\* block.
merge_prev(d, size, prev, block) ==
    [m |-> write_tags(d.m, prev, block,
                      Clr1(Add(size, get_size(d.m, get_hdrp(prev))))),
     root |-> d.r, r |-> prev]
merge_next(d, size, next, block) ==
    [m |-> write_tags(d.m, block, next,
                      Clr1(Add(size, get_size(d.m, get_hdrp(next))))),
     root |-> d.r, r |-> block]
merge_both(d, size, prev, next) ==
    [m |-> write_tags(d.m, prev, next,
                      Clr1(Add(size, Add(get_size(d.m, get_hdrp(prev)),
                                         get_size(d.m, get_hdrp(next)))))),
     root |-> d.r, r |-> prev]
merge_case(d, size, prev, next, prev_free, next_free, block) ==
    IF prev_free /\ ~next_free THEN merge_prev(d, size, prev, block)
    ELSE IF next_free /\ ~prev_free THEN merge_next(d, size, next, block)
    ELSE merge_both(d, size, prev, next)

\* free_root = delete(free_root, node) in the cases that take node in
delete_if(taken, d, node) ==
    IF taken /\ ~d.m.trap THEN delete(d.m, d.r, node, StackDepth) ELSE d

\* the reads merge_blocks makes of the tags around block
merge_reads(s, block) ==
    LET m0 == Touch(Touch(s.m, Sub(block, HEADER_SIZE + FOOTER_SIZE)), get_hdrp(block))
        prev == get_prev(s.m, block)
        next == get_next(s.m, block)
    IN Touch(Touch(m0, IF in_heap(s, prev) THEN get_hdrp(prev) ELSE get_hdrp(block)),
             IF in_heap(s, next) THEN get_hdrp(next) ELSE get_hdrp(block))

merge_blocks(s, block) ==
    LET prev == get_prev(s.m, block)
        next == get_next(s.m, block)
        prev_free == in_heap(s, prev) /\ get_alloc(s.m, prev) = 0
        next_free == in_heap(s, next) /\ get_alloc(s.m, next) = 0
        size == get_size(s.m, get_hdrp(block))
    IN IF merge_reads(s, block).trap \/ (~prev_free /\ ~next_free)
       THEN [m |-> merge_reads(s, block), root |-> s.root, r |-> block]
       ELSE merge_case(delete_if(next_free,
                                 delete_if(prev_free, [m |-> s.m, r |-> s.root], prev),
                                 next),
                       size, prev, next, prev_free, next_free, block)

\* my_free after merge_blocks has yielded mb = [m, root, r]
free_insert(s, mb) ==
    insert_root([s EXCEPT !.root = mb.root],
                init_node(mb.m, mb.r, get_size(mb.m, get_hdrp(mb.r))),
                mb.r, NULL).s

\* my_free once the tags of data are marked free in s.m
free_marked(s, data) ==
    IF s.m.trap THEN s ELSE free_insert(s, merge_blocks(s, data))

\* a variant of my_free without the test for NULL
my_free_unguarded(s, data) ==
    free_marked([s EXCEPT !.m = write_tags(Touch(s.m, get_hdrp(data)), data, data,
                                            Clr1(get_size(s.m, get_hdrp(data))))],
                data)

my_free(s, data) ==
    IF data = NULL THEN s
    ELSE free_marked([s EXCEPT !.m = write_tags(Touch(s.m, get_hdrp(data)), data, data,
                                                Clr1(get_size(s.m, get_hdrp(data))))],
                     data)

\* memset(block, 0, len) and memcpy(dst, src, len), a word at a time
RECURSIVE memset0(_, _, _)
memset0(m, block, len) ==
    IF len <= 0 \/ m.trap THEN m
    ELSE memset0(write_size(m, block, 0), Add(block, 8), len - 8)

RECURSIVE memcpy(_, _, _, _)
memcpy(m, dst, src, len) ==
    IF len <= 0 \/ m.trap THEN m
    ELSE memcpy(write_size(Touch(m, src), dst, get_value(m, src)),
                Add(dst, 8), Add(src, 8), len - 8)

\* a variant of the step below that leaves the block as my_malloc returns it
calloc_keep(a, total_size) == a

\* my_calloc after my_malloc has yielded a = [s, ret]
calloc_clear(a, total_size) ==
    IF a.ret = NULL THEN a
    ELSE [s |-> [a.s EXCEPT !.m = memset0(a.s.m, a.ret, total_size)], ret |-> a.ret]

\* a variant of my_calloc without the test of the product
my_calloc_unchecked(s, nitems, size) ==
    IF nitems = 0 \/ size = 0 THEN [s |-> s, ret |-> NULL]
    ELSE calloc_clear(my_malloc(s, (nitems * size) % SizeMod), (nitems * size) % SizeMod)

my_calloc(s, nitems, size) ==
    IF nitems = 0 \/ size = 0 THEN [s |-> s, ret |-> NULL]
    ELSE IF nitems > SIZE_MAX \div size THEN [s |-> s, ret |-> NULL]
    ELSE calloc_clear(my_malloc(s, (nitems * size) % SizeMod), (nitems * size) % SizeMod)

\* ---- realloc.c -----------------------------------------------------------
\* a variant of the test below with the wrong threshold
RemainderTooSmallAtPayload(remainder_size) == remainder_size < MIN_PAYLOAD_SIZE

\* if (remainder_size < MIN_BLOCK_SIZE) return ptr;
RemainderTooSmall(remainder_size) == remainder_size < MIN_BLOCK_SIZE

\* my_realloc calls my_malloc(new_payload) when ptr is NULL or the block must
\* grow, and my_free at most once, last: of ptr (new_payload = 0, or after the
\* copy) or of the remainder it has split off.  realloc_plan yields
\* [s, ret, free]: the state before that my_free, the pointer to return, and
\* the pointer to free (NULL for none); a is what my_malloc has yielded.
realloc_plan(s, a, ptr, new_payload) ==
    LET old_block_size == get_size(s.m, get_hdrp(ptr))
        old_payload == Sub(Sub(old_block_size, HEADER_SIZE), FOOTER_SIZE)
        new_block_size == BlockSizeFor(new_payload)
        remainder_size == Sub(old_block_size, new_block_size)
        copy_sz == IF new_payload < old_payload THEN new_payload ELSE old_payload
        shrunk == write_tags(s.m, ptr, ptr, Or1(new_block_size))
        remaining_block == get_next(shrunk, ptr)
    IN IF ptr = NULL THEN [s |-> a.s, ret |-> a.ret, free |-> NULL]
       ELSE IF new_payload = 0 THEN [s |-> s, ret |-> NULL, free |-> ptr]
       ELSE IF new_block_size <= old_block_size THEN
            IF RemainderTooSmall(remainder_size) THEN [s |-> s, ret |-> ptr, free |-> NULL]
            ELSE [s |-> [s EXCEPT !.m = write_tags(shrunk, remaining_block, remaining_block,
                                                   Clr1(remainder_size))],
                  ret |-> ptr, free |-> remaining_block]
       ELSE IF a.ret = NULL THEN [s |-> a.s, ret |-> NULL, free |-> NULL]
       ELSE [s |-> [a.s EXCEPT !.m = memcpy(a.s.m, a.ret, ptr, copy_sz)],
             ret |-> a.ret, free |-> ptr]

\* a variant of the step below that leaves the pointer unfreed
realloc_keep(x) == [s |-> x.s, ret |-> x.ret]

\* the closing my_free (my_free(NULL) does nothing)
realloc_release(x) == [s |-> my_free(x.s, x.free), ret |-> x.ret]

my_realloc(s, ptr, new_payload) ==
    realloc_release(
        realloc_plan(s,
                     IF ptr = NULL \/ (new_payload # 0 /\
                                       BlockSizeFor(new_payload) > get_size(s.m, get_hdrp(ptr)))
                     THEN my_malloc(s, new_payload)
                     ELSE [s |-> s, ret |-> NULL],
                     ptr, new_payload))


\* ---- the process and its caller --------------------------------------------
\* What the word below the first break may hold, and what the caller asks for.
BelowWords == {0, 49}
ReqSizes == {0, 40}
CallocArgs == {<<0, 8>>, <<2, 40>>}
BigSizes == {SIZE_MAX - 63, SIZE_MAX - 7}
BigCallocArgs == {<<4, 256>>, <<5, 256>>, <<8, 0>>, <<127, 8>>}
UserWord == 5 * ALIGN + 10
Pattern(k) == UserWord + ALIGN * k

Cur == [m |-> mem, root |-> free_root, lo |-> g_heap_lo, hi |-> g_heap_hi]

\* The process as it starts, with cap bytes for its heap.
Start(cap) ==
    /\ \E b \in BelowWords :
         mem = [w |-> [i \in 1..WordsFor(cap) |-> IF i = 1 THEN b ELSE 0], trap |-> FALSE]
    /\ free_root = NULL
    /\ g_heap_lo = NULL
    /\ g_heap_hi = NULL
    /\ live = << >>
    /\ last = [op |-> "none", call |-> "none", p |-> NULL, n |-> 0, ret |-> NULL]
    /\ ops = 0

Init == Start(HeapCap)

Without(f, p) == [q \in DOMAIN f \ {p} |-> f[q]]
With(f, p, n) == [q \in DOMAIN f \cup {p} |-> IF q = p THEN n ELSE f[q]]

\* The process takes the handler's result a = [s, ret], or stops on a trap.
\* arg is the pointer passed in, freed the pointer the call takes from the
\* caller (NULL for none); the caller makes no more than bound calls.
CommitWithin(bound, a, arg, freed, op, n) ==
    /\ ~mem.trap
    /\ ops < bound
    /\ ops' = ops + 1
    /\ IF a.s.m.trap
       THEN /\ mem' = Trap(mem)
            /\ last' = [op |-> "trap", call |-> op, p |-> arg, n |-> n, ret |-> NULL]
            /\ UNCHANGED <<free_root, g_heap_lo, g_heap_hi, live>>
       ELSE /\ mem' = a.s.m
            /\ free_root' = a.s.root
            /\ g_heap_lo' = a.s.lo
            /\ g_heap_hi' = a.s.hi
            /\ live' = LET kept == IF freed = NULL THEN live ELSE Without(live, freed)
                       IN IF a.ret = NULL THEN kept
                          ELSE With(kept, a.ret,
                                    [n |-> n, size |-> get_size(a.s.m, get_hdrp(a.ret))])
            /\ last' = [op |-> op, call |-> op, p |-> arg, n |-> n, ret |-> a.ret]

Commit(a, arg, freed, op, n) == CommitWithin(MaxOps, a, arg, freed, op, n)

Malloc(n) == Commit(my_malloc(Cur, n), NULL, NULL, "malloc", n)

Free(p) == Commit([s |-> my_free(Cur, p), ret |-> NULL], p, p, "free", 0)

\* realloc takes p from the caller when it frees it (n = 0) or returns a
\* pointer; a is what my_realloc yields
CommitRealloc(a, p, n) ==
    Commit(a, p, IF n = 0 \/ a.ret # NULL THEN p ELSE NULL, "realloc", n)

Realloc(p, n) == CommitRealloc(my_realloc(Cur, p, n), p, n)

Calloc(k, n) ==
    Commit(my_calloc(Cur, k, n), NULL, NULL, "calloc", (k * n) % SizeMod)

\* The caller writes the n bytes it asked for at p.
RECURSIVE FillWords(_, _, _, _)
FillWords(m, p, len, k) ==
    IF len <= 0 \/ m.trap THEN m
    ELSE FillWords(write_size(m, Add(p, 8 * k), Pattern(k)), p, len - 8, k + 1)

Fill(p) ==
    LET m1 == FillWords(mem, p, live[p].n, 0)
    IN /\ m1 # mem
       /\ ~mem.trap
       /\ ops < MaxOps
       /\ ops' = ops + 1
       /\ mem' = m1
       /\ last' = [op |-> "fill", call |-> "fill", p |-> p, n |-> live[p].n, ret |-> NULL]
       /\ UNCHANGED <<free_root, g_heap_lo, g_heap_hi, live>>

Next ==
    \/ \E n \in ReqSizes : Malloc(n)
    \/ \E p \in DOMAIN live \cup {NULL} : Free(p)
    \/ \E p \in DOMAIN live \cup {NULL}, n \in ReqSizes : Realloc(p, n)
    \/ \E a \in CallocArgs : Calloc(a[1], a[2])
    \/ \E p \in DOMAIN live : Fill(p)

Spec == Init /\ [][Next]_vars

\* The same process with a caller that also asks for sizes near SIZE_MAX,
\* followed for fewer calls.
Shallow == ops < MaxOpsBig
NextBig ==
    \/ Shallow /\ \E n \in ReqSizes \cup BigSizes : Malloc(n)
    \/ Shallow /\ \E p \in DOMAIN live \cup {NULL} : Free(p)
    \/ Shallow /\ \E p \in DOMAIN live \cup {NULL}, n \in ReqSizes \cup BigSizes : Realloc(p, n)
    \/ Shallow /\ \E a \in CallocArgs \cup BigCallocArgs : Calloc(a[1], a[2])
    \/ Shallow /\ \E p \in DOMAIN live : Fill(p)

SpecBig == Init /\ [][NextBig]_vars

\* A caller that only allocates and frees, asking for 0 or 80 bytes, followed
\* for more calls on a larger heap.
LawSizes == {0, 5 * ALIGN}
LawCap == MaxBlocksLaw * MIN_BLOCK_SIZE
InitLaw == Start(LawCap)
MallocLaw(n) == CommitWithin(MaxOpsLaw, my_malloc(Cur, n), NULL, NULL, "malloc", n)
FreeLaw(p) == CommitWithin(MaxOpsLaw, [s |-> my_free(Cur, p), ret |-> NULL], p, p, "free", 0)
NextLaw ==
    \/ \E n \in LawSizes : MallocLaw(n)
    \/ \E p \in DOMAIN live : FreeLaw(p)

SpecLaw == InitLaw /\ [][NextLaw]_vars

\* A caller of the index alone: MaxNodes blocks, each a node with a size of
\* its own choosing, inserted when out of the tree and deleted when in it.
\* last.p is the node passed and last.ret the root returned.
TreeNodes == {LoAddr + HEADER_SIZE + MIN_BLOCK_SIZE * k : k \in 0..(MaxNodes - 1)}
TreeSizes == {MIN_BLOCK_SIZE, 2 * MIN_BLOCK_SIZE}
TreeCap == MaxNodes * MIN_BLOCK_SIZE
InitTree == Start(TreeCap)
RECURSIVE Reachable(_, _, _)
Reachable(m, root, d) ==
    IF root = NULL \/ d = 0 THEN {}
    ELSE {root} \cup Reachable(m, LeftOf(m, root), d - 1)
                \cup Reachable(m, RightOf(m, root), d - 1)
TreeCommit(t, op, node, size) ==
    /\ ~mem.trap
    /\ ops < MaxOpsTree
    /\ ops' = ops + 1
    /\ mem' = t.m
    /\ free_root' = t.r
    /\ last' = [op |-> op, call |-> op, p |-> node, n |-> size, ret |-> t.r]
    /\ UNCHANGED <<g_heap_lo, g_heap_hi, live>>
TreeInsert(node, size) ==
    /\ node \notin Reachable(mem, free_root, MaxNodes)
    /\ TreeCommit(insert(init_node(mem, node, size), free_root, node, StackDepth),
                  "insert", node, size)
TreeDelete(node) ==
    /\ node \in Reachable(mem, free_root, MaxNodes)
    /\ TreeCommit(delete(mem, free_root, node, StackDepth), "delete", node, 0)
NextTree ==
    \/ \E node \in TreeNodes, size \in TreeSizes : TreeInsert(node, size)
    \/ \E node \in TreeNodes : TreeDelete(node)

SpecTree == InitTree /\ [][NextTree]_vars


\* ---- what an observer sees between calls -----------------------------------
\* The headers met walking from g_heap_lo by the size in each header, and the
\* address where the walk ends (-1 if it meets a size of 0 and cannot go on:
\* a word of size 0 is no block).
RECURSIVE Walk(_, _, _, _)
Walk(m, at, hi, d) ==
    IF at >= hi \/ d = 0 \/ get_size(m, at) = 0 THEN << >>
    ELSE <<at>> \o Walk(m, at + get_size(m, at), hi, d - 1)

RECURSIVE WalkEnd(_, _, _, _)
WalkEnd(m, at, hi, d) ==
    IF at >= hi THEN at
    ELSE IF d = 0 \/ get_size(m, at) = 0 THEN -1
    ELSE WalkEnd(m, at + get_size(m, at), hi, d - 1)

Range(f) == {f[i] : i \in DOMAIN f}
HeapHeaders(m, lo, hi) == IF lo = NULL THEN << >> ELSE Walk(m, lo, hi, MemWords)
HeapBlocks(m, lo, hi) == {Add(h, HEADER_SIZE) : h \in Range(HeapHeaders(m, lo, hi))}
FreeBlocks(m, lo, hi) == {b \in HeapBlocks(m, lo, hi) : get_alloc(m, b) = 0}

\* The index in order, left subtree first; -1 marks a link that leads outside
\* memory or a path longer than any tree of the heap's blocks can have.
TreeFuel == MaxBlocks + 1
RECURSIVE InOrder(_, _, _)
InOrder(m, n, d) ==
    IF n = NULL THEN << >>
    ELSE IF d = 0 \/ ~NodeOK(n) THEN <<-1>>
    ELSE InOrder(m, LeftOf(m, n), d - 1) \o <<n>> \o InOrder(m, RightOf(m, n), d - 1)

IndexSeq(m, root) == InOrder(m, root, TreeFuel)
IndexNodes(m, root) == Range(IndexSeq(m, root))
ProperTree(m, root) ==
    LET q == IndexSeq(m, root)
    IN /\ -1 \notin Range(q)
       /\ \A i, j \in DOMAIN q : i # j => q[i] # q[j]

\* S = max(M, ALIGN_UP(n + 2W)) as a number, without size_t wrap-around
BlockSizeWanted(n) ==
    max(MIN_BLOCK_SIZE,
        ((n + HEADER_SIZE + FOOTER_SIZE + ALIGN - 1) \div ALIGN) * ALIGN)

FacadeOps == {"malloc", "free", "realloc", "calloc"}

\* C3: between calls, every block of the heap has a footer word identical to
\* its header word.
C3_TagsMatch ==
    \A h \in Range(HeapHeaders(mem, g_heap_lo, g_heap_hi)) :
        LET f == h + get_size(mem, h) - FOOTER_SIZE
        IN Mapped(f) /\ get_value(mem, f) = get_value(mem, h)

\* C4: walking from lo by the header sizes ends exactly at hi.
C4_WalkEndsAtHi ==
    g_heap_lo # NULL => WalkEnd(mem, g_heap_lo, g_heap_hi, MemWords) = g_heap_hi

\* A block whose footer lies below hi and repeats its header.
Tagged(m, h, hi) ==
    LET f == h + get_size(m, h) - FOOTER_SIZE
    IN f < hi /\ Mapped(f) /\ get_value(m, f) = get_value(m, h)

\* C5: after every call, no two blocks adjacent in the heap are both free
\* (stated of the blocks whose tags agree, so that a word of user data met by
\* the walk does not count as a block).
C5_NoAdjacentFree ==
    LET q == HeapHeaders(mem, g_heap_lo, g_heap_hi)
    IN \A i \in 1..(Len(q) - 1) :
          (Tagged(mem, q[i], g_heap_hi) /\ Tagged(mem, q[i + 1], g_heap_hi))
             => ~(get_value(mem, q[i]) % 2 = 0 /\ get_value(mem, q[i + 1]) % 2 = 0)

\* C6: after every call, the nodes reachable from free_root are exactly the
\* blocks of the heap whose alloc bit is 0, each once, and each node's size
\* field is the size in its block's header.
C6_IndexIsFreeSet ==
    /\ ProperTree(mem, free_root)
    /\ IndexNodes(mem, free_root) = FreeBlocks(mem, g_heap_lo, g_heap_hi)
    /\ \A n \in IndexNodes(mem, free_root) :
          SizeOf(mem, n) = get_size(mem, get_hdrp(n))

\* C7: after every call, the index is a search tree under (size, address),
\* every stored height is 1 + max of the children's, and every balance factor
\* is -1, 0 or 1.
C7_IndexIsAVL ==
    LET q == IndexSeq(mem, free_root)
    IN /\ ProperTree(mem, free_root)
       /\ \A i \in 1..(Len(q) - 1) : cmp(mem, q[i], q[i + 1]) < 0
       /\ \A n \in Range(q) :
             /\ HeightOf(mem, n) =
                  1 + max(height(mem, LeftOf(mem, n)), height(mem, RightOf(mem, n)))
             /\ getBalance(mem, n) \in {-1, 0, 1}

\* The payload of a pointer the caller holds, as the words of the block it was
\* given (f is the caller's map of pointers).
PayloadWords(f, p) ==
    {a \in p..(p + f[p].size - HEADER_SIZE - FOOTER_SIZE - 1) : (a - p) % 8 = 0}

Disjoint(f, lo, hi) ==
    /\ \A p \in DOMAIN f : \A a \in PayloadWords(f, p) : a >= lo /\ a < hi
    /\ \A p, q \in DOMAIN f : p # q => PayloadWords(f, p) \cap PayloadWords(f, q) = {}

\* C1: after every call the payloads of the pointers the caller holds are
\* pairwise disjoint and inside [lo, hi), and the call has changed no word in
\* the payload of a pointer the caller held before and still holds, other
\* than the one it returns.
C1_PayloadsOwned ==
    [][last'.op \in FacadeOps =>
          /\ Disjoint(live', g_heap_lo', g_heap_hi')
          /\ \A p \in (DOMAIN live \cap DOMAIN live') \ {last'.ret} :
                \A a \in PayloadWords(live, p) :
                    get_value(mem', a) = get_value(mem, a)]_vars

\* C2: a non-null pointer returned by alloc(n) has the alloc bit set in its
\* header, a footer word equal to the header word, and a size of at least
\* S = max(M, ALIGN_UP(n + 2W)), so that the payload holds n bytes.
C2_AllocContract ==
    (last.op = "malloc" /\ last.ret # NULL) =>
        LET h == get_hdrp(last.ret)
            size == get_size(mem, h)
        IN /\ get_value(mem, h) % 2 = 1
           /\ get_value(mem, h + size - FOOTER_SIZE) = get_value(mem, h)
           /\ size >= BlockSizeWanted(last.n)
           /\ size - HEADER_SIZE - FOOTER_SIZE >= last.n

\* The free blocks of the heap (with agreeing tags) of size at least size, and
\* the first of them under (size, address).
Fitting(m, lo, hi, size) ==
    {b \in FreeBlocks(m, lo, hi) :
        Tagged(m, get_hdrp(b), hi) /\ get_size(m, get_hdrp(b)) >= size}
Smallest(m, blocks) ==
    CHOOSE b \in blocks :
        \A c \in blocks :
            \/ get_size(m, get_hdrp(b)) < get_size(m, get_hdrp(c))
            \/ get_size(m, get_hdrp(b)) = get_size(m, get_hdrp(c)) /\ b <= c

\* (size, address) of block b is not after that of block c
NotAfter(m, b, c) ==
    \/ get_size(m, get_hdrp(b)) < get_size(m, get_hdrp(c))
    \/ get_size(m, get_hdrp(b)) = get_size(m, get_hdrp(c)) /\ b <= c

\* C8: when a free block of size >= S exists, alloc(s) returns the start of
\* a free block of size >= S that no such block precedes under (size,
\* address); and best_fit finds nothing only when no free block has size >= S.
\* The blocks quantified over are those the walk from lo meets, so a block it
\* returns that the walk misses must still be free, fit and not after them.
C8_BestFit ==
    [][last'.op = "malloc" =>
          LET S == BlockSizeWanted(last'.n)
              fit == Fitting(mem, g_heap_lo, g_heap_hi, S)
          IN /\ fit # {} =>
                  /\ last'.ret # NULL
                  /\ get_alloc(mem, last'.ret) = 0
                  /\ get_size(mem, get_hdrp(last'.ret)) >= S
                  /\ NotAfter(mem, last'.ret, Smallest(mem, fit))
             /\ best_fit(mem, free_root, S).r = NULL => fit = {}]_vars

\* C9: when realloc(p, n) with n > 0 returns q # NULL, the first min(P, n)
\* bytes at q are the first min(P, n) bytes that were at p, P the payload
\* capacity of p's block before the call.
C9_ReallocPreserves ==
    [][(last'.op = "realloc" /\ last'.p # NULL /\ last'.n > 0 /\ last'.ret # NULL) =>
          LET P == get_size(mem, get_hdrp(last'.p)) - HEADER_SIZE - FOOTER_SIZE
              k == IF P < last'.n THEN P ELSE last'.n
          IN \A o \in 0..(k - 1) :
                o % 8 = 0 =>
                   get_value(mem', last'.ret + o) = get_value(mem, last'.p + o)]_vars

\* C10: realloc(p, n) with n > 0, S_new <= S_old and S_old - S_new < M returns
\* p and changes nothing: memory (every tag, every node of the index),
\* free_root, lo and hi are as before.
C10_SmallShrinkIsIdentity ==
    [][(/\ last'.op \in {"realloc", "trap"}
        /\ ops' = ops + 1
        /\ last'.p \in DOMAIN live
        /\ last'.n > 0
        /\ BlockSizeWanted(last'.n) <= get_size(mem, get_hdrp(last'.p))
        /\ get_size(mem, get_hdrp(last'.p)) - BlockSizeWanted(last'.n) < MIN_BLOCK_SIZE)
       => /\ last'.op = "realloc"
          /\ last'.ret = last'.p
          /\ mem' = mem
          /\ free_root' = free_root
          /\ g_heap_lo' = g_heap_lo
          /\ g_heap_hi' = g_heap_hi]_vars

\* a small shrink has happened: the block is larger than the request needs
C10_SmallShrinkSeen ==
    /\ last.op = "realloc"
    /\ last.p # NULL
    /\ last.ret = last.p
    /\ last.n > 0
    /\ get_size(mem, get_hdrp(last.p)) > BlockSizeWanted(last.n)
    /\ get_size(mem, get_hdrp(last.p)) - BlockSizeWanted(last.n) < MIN_BLOCK_SIZE

\* The allocator's state as a call leaves it, and as it was before the call.
After == [m |-> mem', root |-> free_root', lo |-> g_heap_lo', hi |-> g_heap_hi']
SameState == After = Cur

\* The step is a call of kind c whose outcome is a = [s, ret]: the process
\* stops if a has trapped, and otherwise is left in a.s with a.ret returned.
Yields(a) ==
    IF a.s.m.trap THEN last'.op = "trap"
    ELSE last'.op = last'.call /\ After = a.s /\ last'.ret = a.ret

\* C11: realloc(NULL, n) returns the pointer and leaves the heap and index
\* state that alloc(n) yields from the same state, and realloc(p, 0) for a
\* live p returns NULL and leaves the state that free(p) yields.
C11_ReallocDispatch ==
    [][(last'.call = "realloc" /\ ops' = ops + 1) =>
          /\ last'.p = NULL => Yields(my_malloc(Cur, last'.n))
          /\ (last'.p # NULL /\ last'.n = 0) =>
                Yields([s |-> my_free(Cur, last'.p), ret |-> NULL])]_vars

\* realloc(p, 0) has freed a live p: its block is in the index
C11_ReallocFreed ==
    /\ last.op = "realloc"
    /\ last.p # NULL
    /\ last.n = 0
    /\ last.ret = NULL
    /\ last.p \notin DOMAIN live
    /\ free_root # NULL

\* C12: free(NULL) changes nothing: memory (every tag, every node of the
\* index), free_root, lo and hi are as before, also before the first heap
\* extension.
C12_FreeNullIsNoOp ==
    [][(last'.call = "free" /\ last'.p = NULL /\ ops' = ops + 1) =>
          /\ last'.op = "free"
          /\ SameState
          /\ live' = live]_vars

\* free(NULL) has been called on a heap with live and free blocks
C12_FreeNullSeen ==
    /\ last.op = "free"
    /\ last.p = NULL
    /\ DOMAIN live # {}
    /\ free_root # NULL

\* C13: when calloc(k, n) returns a pointer (k * n > 0, no overflow of the
\* product), every one of the first k * n bytes at it is 0, also when the
\* block comes from the index and held node fields or user data.
C13_CallocZeroes ==
    [][(last'.op = "calloc" /\ last'.ret # NULL) =>
          \A o \in 0..(last'.n - 1) :
              o % 8 = 0 => get_value(mem', Add(last'.ret, o)) = 0]_vars

\* calloc has returned a block that does not end the heap: the heap extension
\* puts its block last, so this one was taken from the index, where its
\* payload held the node's fields (the word below the heap is an allocated
\* tag here, so no block has been merged with itself)
C13_CallocReused ==
    /\ get_value(mem, MemBase) % 2 = 1
    /\ last.op = "calloc"
    /\ last.ret # NULL
    /\ last.n > 0
    /\ get_hdrp(get_next(mem, last.ret)) < g_heap_hi

\* The arguments the caller gives calloc, those among them that the claim says
\* are refused, and the byte counts (as size_t) recorded for these and for no
\* other call.
AllCallocArgs == CallocArgs \cup BigCallocArgs
RefusedArgs ==
    {a \in AllCallocArgs : a[1] = 0 \/ a[2] = 0 \/ a[1] > SIZE_MAX \div a[2]}
Product(a) == (a[1] * a[2]) % SizeMod
RefusedProducts ==
    {Product(a) : a \in RefusedArgs} \ {Product(a) : a \in AllCallocArgs \ RefusedArgs}

\* C14: calloc(k, n) with k = 0, n = 0 or k > SIZE_MAX / n returns NULL and
\* changes nothing: memory (tags, index), free_root, lo and hi are as before.
C14_CallocRejects ==
    [][(last'.call = "calloc" /\ last'.n \in RefusedProducts /\ ops' = ops + 1) =>
          /\ last'.op = "calloc"
          /\ last'.ret = NULL
          /\ SameState
          /\ live' = live]_vars

\* calloc(5, 256), whose product exceeds SIZE_MAX, has been refused on a heap
\* with live and free blocks
C14_OverflowRefused ==
    /\ last.op = "calloc"
    /\ last.n = Product(<<5, 256>>)
    /\ last.ret = NULL
    /\ DOMAIN live # {}
    /\ free_root # NULL

\* C15: when n + 2W rounded up to the alignment does not fit a size_t,
\* alloc(n) and realloc(p, n) return NULL and change nothing (so they return
\* no block whose payload is smaller than n).
C15_OversizeRefused ==
    [][(/\ last'.call \in {"malloc", "realloc"}
        /\ BlockSizeWanted(last'.n) > SIZE_MAX
        /\ ops' = ops + 1)
       => /\ last'.op = last'.call
          /\ last'.ret = NULL
          /\ SameState]_vars

\* C16: every calloc(k, n) returns NULL or a block whose payload holds k * n
\* bytes, and its zeroing stays inside that payload (a zeroing that runs off
\* the mapped memory stops the process).  last'.n is k * n for every call
\* that passes the test of the product.
C16_CallocOverflowSafe ==
    [][(last'.call = "calloc" /\ ops' = ops + 1) =>
          /\ last'.op = "calloc"
          /\ last'.ret # NULL =>
                get_size(mem', get_hdrp(last'.ret)) - HEADER_SIZE - FOOTER_SIZE
                    >= last'.n]_vars

\* The index has no block of at least size bytes and the OS declines to move
\* the break by size.
Declined(size) ==
    /\ ~best_fit(mem, free_root, size).m.trap
    /\ best_fit(mem, free_root, size).r = NULL
    /\ ~SbrkOK(Cur, size)

\* C17: when the OS declines the heap extension, alloc returns NULL with lo,
\* hi, memory (every tag, the index) and free_root unchanged; and realloc on
\* its grow path returns NULL with p not freed: the caller still holds it,
\* and memory (p's tags and contents, the index), free_root, lo and hi are
\* unchanged.
C17_FailureAtomic ==
    [][(ops' = ops + 1 /\ Declined(BlockSizeFor(last'.n))) =>
          /\ last'.call = "malloc" =>
                /\ last'.op = "malloc"
                /\ last'.ret = NULL
                /\ SameState
                /\ live' = live
          /\ (/\ last'.call = "realloc"
              /\ last'.p # NULL
              /\ last'.n # 0
              /\ BlockSizeFor(last'.n) > get_size(mem, get_hdrp(last'.p))) =>
                /\ last'.op = "realloc"
                /\ last'.ret = NULL
                /\ SameState
                /\ live' = live
                /\ last'.p \in DOMAIN live']_vars

\* realloc of a live pointer to a larger size has failed: the heap is full
C17_GrowDeclined ==
    /\ last.op = "realloc"
    /\ last.p \in DOMAIN live
    /\ get_alloc(mem, last.p) = 1
    /\ last.n > 0
    /\ last.ret = NULL
    /\ BlockSizeFor(last.n) > get_size(mem, get_hdrp(last.p))
    /\ Declined(BlockSizeFor(last.n))

C19_Watermarks ==
    [][/\ g_heap_lo # NULL => g_heap_lo' = g_heap_lo
       /\ g_heap_hi' >= g_heap_hi
       /\ (g_heap_hi' # g_heap_hi \/ g_heap_lo' # g_heap_lo) =>
             /\ last'.op \in {"malloc", "calloc", "realloc"}
             /\ g_heap_lo' = (IF g_heap_lo = NULL THEN BrkOf(Cur) ELSE g_heap_lo)
             /\ g_heap_hi' = BrkOf(Cur) + get_size(mem', BrkOf(Cur))
       /\ (\/ last'.call = "free"
           \/ /\ last'.call = "realloc"
              /\ last'.p # NULL
              /\ BlockSizeFor(last'.n) <= get_size(mem, get_hdrp(last'.p))) =>
             (g_heap_lo' = g_heap_lo /\ g_heap_hi' = g_heap_hi)]_vars

\* After free(p): the size S that p's block had (its header word stays where
\* it was, inside the merged block), and the free blocks that reach beyond
\* p's block on both sides and are in the index while p is not, i.e. the
\* block free(p) has made of p's block and its two free neighbours.
FreedSize(p) == get_size(mem, get_hdrp(p))
Coalesced(p) ==
    {b \in FreeBlocks(mem, g_heap_lo, g_heap_hi) :
        /\ Tagged(mem, get_hdrp(b), g_heap_hi)
        /\ b \in IndexNodes(mem, free_root)
        /\ p \notin IndexNodes(mem, free_root)
        /\ get_hdrp(b) < get_hdrp(p)
        /\ get_hdrp(b) + get_size(mem, get_hdrp(b)) > get_hdrp(p) + FreedSize(p)}

\* The step is alloc(S - 2W) right after free(p) has merged p's block, of
\* size S >= 2M, with both its neighbours.
AllocAfterMerge ==
    /\ last.op = "free"
    /\ last.p # NULL
    /\ last'.call = "malloc"
    /\ ops' = ops + 1
    /\ FreedSize(last.p) >= 2 * MIN_BLOCK_SIZE
    /\ last'.n = FreedSize(last.p) - HEADER_SIZE - FOOTER_SIZE
    /\ Coalesced(last.p) # {}

\* alloc has returned a pointer into block b, and the size of the returned
\* block, together with the remainder put back in the index behind it, is
\* the size b had.
ServedFrom(b) ==
    LET whole == get_size(mem, get_hdrp(b))
        size == get_size(mem', get_hdrp(last'.ret))
        rest == Add(last'.ret, size)
    IN /\ last'.op = "malloc"
       /\ last'.ret # NULL
       /\ get_hdrp(last'.ret) >= get_hdrp(b)
       /\ get_hdrp(last'.ret) < get_hdrp(b) + whole
       /\ \/ size = whole
          \/ /\ size < whole
             /\ rest \in IndexNodes(mem', free_root')
             /\ get_alloc(mem', rest) = 0
             /\ size + get_size(mem', get_hdrp(rest)) = whole

\* C20: free(p) of a block of size S >= 2M between two free blocks, followed
\* at once by alloc(S - 2W), returns a pointer into the merged block, and the
\* returned block and the split remainder together have the size of prev, p
\* and next, whatever other free blocks there are.
C20_SplitMergeLaw ==
    [][AllocAfterMerge => \A b \in Coalesced(last.p) : ServedFrom(b)]_vars

\* C21: once the caller has freed every pointer it held, the index is exactly
\* one node, at g_heap_lo, whose block is free, has agreeing tags and has size
\* g_heap_hi - g_heap_lo: the freed blocks, adjacent from lo to hi, have all
\* been merged into one, in whatever order they were freed.
C21_FullCoalescing ==
    (g_heap_lo # NULL /\ DOMAIN live = {} /\ ~mem.trap) =>
        /\ IndexSeq(mem, free_root) = <<Add(g_heap_lo, HEADER_SIZE)>>
        /\ get_value(mem, g_heap_lo) = g_heap_hi - g_heap_lo
        /\ Tagged(mem, g_heap_lo, g_heap_hi + FOOTER_SIZE)
        /\ SizeOf(mem, free_root) = g_heap_hi - g_heap_lo

\* Before free(p): the blocks of the heap that end where p's block starts and
\* that start where it ends, when they are free; the start and the size of
\* the block free(p) is to leave; and the tag words of block b.
FreePrev(p) ==
    {b \in FreeBlocks(mem, g_heap_lo, g_heap_hi) :
        get_hdrp(b) + get_size(mem, get_hdrp(b)) = get_hdrp(p)}
FreeNext(p) ==
    {b \in FreeBlocks(mem, g_heap_lo, g_heap_hi) :
        get_hdrp(b) = get_hdrp(p) + get_size(mem, get_hdrp(p))}
SizesOf(blocks) ==
    IF blocks = {} THEN 0 ELSE get_size(mem, get_hdrp(CHOOSE b \in blocks : TRUE))
MergedStart(p) == IF FreePrev(p) = {} THEN p ELSE CHOOSE b \in FreePrev(p) : TRUE
MergedSize(p) ==
    get_size(mem, get_hdrp(p)) + SizesOf(FreePrev(p)) + SizesOf(FreeNext(p))
TagWords(m, b) ==
    {get_hdrp(b), get_hdrp(b) + get_size(m, get_hdrp(b)) - FOOTER_SIZE}

\* C22: free(p) of a block the caller holds leaves in the index one free
\* block q, starting at the previous block when that block was free and at p
\* otherwise, of the size of p's block plus the sizes of the neighbours that
\* were free; header and footer of q hold that size with alloc bit 0, the
\* absorbed neighbours are no longer in the index, and the index membership
\* and the tags of every other block are as before.
C22_CoalesceResult ==
    [][(last'.call = "free" /\ last'.p \in DOMAIN live) =>
          LET p == last'.p
              q == MergedStart(p)
              size == MergedSize(p)
          IN /\ last'.op = "free"
             /\ get_value(mem', get_hdrp(q)) = size
             /\ get_value(mem', get_hdrp(q) + size - FOOTER_SIZE) = size
             /\ SizeOf(mem', q) = size
             /\ IndexNodes(mem', free_root') =
                   (IndexNodes(mem, free_root) \ (FreePrev(p) \cup FreeNext(p))) \cup {q}
             /\ \A b \in HeapBlocks(mem, g_heap_lo, g_heap_hi) \
                            ({p} \cup FreePrev(p) \cup FreeNext(p)) :
                   \A a \in TagWords(mem, b) : get_value(mem', a) = get_value(mem, a)]_vars

\* The block alloc(n) is to pop from the index (NULL for none), and the step
\* is a call of alloc that finds one.
BestFor(n) == best_fit(mem, free_root, BlockSizeFor(n)).r
ServedFromIndex == last'.call = "malloc" /\ ops' = ops + 1 /\ BestFor(last'.n) # NULL

Words == {MemBase + 8 * (i - 1) : i \in 1..MemWords}
Miss(n) ==
    /\ ~best_fit(mem, free_root, BlockSizeFor(n)).m.trap
    /\ BestFor(n) = NULL
    /\ SbrkOK(Cur, BlockSizeFor(n))

\* C24: alloc extends the heap exactly when the index has no free block of
\* size >= S.  On such a miss hi grows by exactly S (lo is set to the old
\* break by the first extension and is unchanged by later ones), the block
\* returned starts at the old break, is tagged allocated with size S, and
\* free_root, the index and every word below the old break are unchanged.
\* When the index has a fitting block, lo and hi are unchanged.
C24_ExtendOnlyOnMiss ==
    [][(last'.call = "malloc" /\ ops' = ops + 1) =>
          LET S == BlockSizeFor(last'.n)
              brk == BrkOf(Cur)
          IN /\ Miss(last'.n) =>
                  /\ last'.op = "malloc"
                  /\ g_heap_hi' = brk + S
                  /\ g_heap_lo' = (IF g_heap_lo = NULL THEN brk ELSE g_heap_lo)
                  /\ last'.ret = brk + HEADER_SIZE
                  /\ get_value(mem', brk) = S + 1
                  /\ get_value(mem', brk + S - FOOTER_SIZE) = S + 1
                  /\ free_root' = free_root
                  /\ IndexSeq(mem', free_root') = IndexSeq(mem, free_root)
                  /\ \A a \in Words : a < brk => get_value(mem', a) = get_value(mem, a)
             /\ BestFor(last'.n) # NULL =>
                  (g_heap_lo' = g_heap_lo /\ g_heap_hi' = g_heap_hi)]_vars

\* The step is realloc(p, n) of a block the caller holds, with n > 0 and
\* S_old - S_new >= M.
ShrinkSplit ==
    /\ last'.call = "realloc"
    /\ ops' = ops + 1
    /\ last'.p \in DOMAIN live
    /\ last'.n > 0
    /\ get_size(mem, get_hdrp(last'.p)) - BlockSizeWanted(last'.n) >= MIN_BLOCK_SIZE

\* C25: such a realloc(p, n) returns p; p's block is tagged allocated with
\* size exactly S_new; the tail at p + S_new is a free block in the index,
\* of size S_old - S_new plus the size of the block that followed p when
\* that block was free (which then has left the index); p is not in the
\* index, and no other node has entered or left it.
C25_ShrinkSplit ==
    [][ShrinkSplit =>
          LET p == last'.p
              S_new == BlockSizeWanted(last'.n)
              tail == p + S_new
              size == get_size(mem, get_hdrp(p)) - S_new + SizesOf(FreeNext(p))
          IN /\ last'.op = "realloc"
             /\ last'.ret = p
             /\ get_value(mem', get_hdrp(p)) = S_new + 1
             /\ get_value(mem', get_hdrp(p) + S_new - FOOTER_SIZE) = S_new + 1
             /\ get_value(mem', get_hdrp(tail)) = size
             /\ get_value(mem', get_hdrp(tail) + size - FOOTER_SIZE) = size
             /\ SizeOf(mem', tail) = size
             /\ p \notin IndexNodes(mem', free_root')
             /\ IndexNodes(mem', free_root') =
                   (IndexNodes(mem, free_root) \ FreeNext(p)) \cup {tail}]_vars

\* my_free(p) as it calls merge_blocks: the state with p's tags marked free;
\* prev_free and next_free as merge_blocks computes them in state s; and the
\* addresses of the tag words it reads to do so (the footer below block and
\* block's header always, the header of prev or next once in_heap has passed
\* it).
Marked(p) ==
    [Cur EXCEPT !.m = write_tags(Touch(mem, get_hdrp(p)), p, p,
                                 Clr1(get_size(mem, get_hdrp(p))))]
PrevFree(s, block) ==
    in_heap(s, get_prev(s.m, block)) /\ get_alloc(s.m, get_prev(s.m, block)) = 0
NextFree(s, block) ==
    in_heap(s, get_next(s.m, block)) /\ get_alloc(s.m, get_next(s.m, block)) = 0
MergeReads(s, block) ==
    {Sub(Sub(block, HEADER_SIZE), FOOTER_SIZE), get_hdrp(block)}
        \cup (IF in_heap(s, get_prev(s.m, block))
              THEN {get_hdrp(get_prev(s.m, block))} ELSE {})
        \cup (IF in_heap(s, get_next(s.m, block))
              THEN {get_hdrp(get_next(s.m, block))} ELSE {})

\* C26: when free(p) coalesces, every tag word it reads lies in [lo, hi);
\* prev_free is false when p's block is the first of the heap and next_free
\* is false when it is the last, whatever the words below lo and from hi on
\* hold.
C26_BoundaryGuard ==
    [][(last'.call = "free" /\ ops' = ops + 1 /\ last'.p \in DOMAIN live) =>
          LET p == last'.p
          IN /\ \A a \in MergeReads(Marked(p), p) : a >= g_heap_lo /\ a < g_heap_hi
             /\ get_hdrp(p) = g_heap_lo => ~PrevFree(Marked(p), p)
             /\ get_hdrp(p) + get_size(mem, get_hdrp(p)) = g_heap_hi
                   => ~NextFree(Marked(p), p)]_vars

\* The nodes free(p) passes to delete: prev and next, each when merge_blocks
\* finds it free.
DeletedByFree(p) ==
    (IF PrevFree(Marked(p), p) THEN {get_prev(Marked(p).m, p)} ELSE {})
        \cup (IF NextFree(Marked(p), p) THEN {get_next(Marked(p).m, p)} ELSE {})

\* free(p) deletes only nodes that are in the tree, p's own node is not in
\* the tree, the node it inserts is out of the tree when insert is called,
\* and the tree afterwards holds the nodes it held, less those deleted, plus
\* the one inserted.
FreeKeepsNodeStates(p) ==
    /\ DeletedByFree(p) \subseteq IndexNodes(mem, free_root)
    /\ p \notin IndexNodes(mem, free_root)
    /\ ~merge_blocks(Marked(p), p).m.trap
    /\ merge_blocks(Marked(p), p).r \notin
          IndexNodes(merge_blocks(Marked(p), p).m, merge_blocks(Marked(p), p).root)
    /\ IndexNodes(mem', free_root') =
          (IndexNodes(mem, free_root) \ DeletedByFree(p))
              \cup {merge_blocks(Marked(p), p).r}

\* alloc(n) deletes the best fit, a node of the tree, and the remainder it
\* inserts after a split is out of the tree when insert is called; a call
\* that extends the heap leaves the tree as it is.
AllocKeepsNodeStates(n) ==
    LET S == BlockSizeFor(n)
        node == BestFor(n)
        rest == Add(node, S)
        split == Sub(SizeOf(mem, node), S) >= MIN_BLOCK_SIZE
    IN IF node = NULL
       THEN IndexNodes(mem', free_root') = IndexNodes(mem, free_root)
       ELSE /\ node \in IndexNodes(mem, free_root)
            /\ ~pop_best_fit(mem, free_root, S).m.trap
            /\ split => rest \notin IndexNodes(pop_best_fit(mem, free_root, S).m,
                                               pop_best_fit(mem, free_root, S).root)
            /\ IndexNodes(mem', free_root') =
                  (IndexNodes(mem, free_root) \ {node})
                      \cup (IF split THEN {rest} ELSE {})

\* C27: along any sequence of calls, delete is called only with a node that
\* is in the tree and insert only with a node that is out of it, and nodes
\* enter the tree only by insert and leave it only by delete.
C27_NodeStateMachine ==
    [][/\ (last'.call = "free" /\ ops' = ops + 1 /\ last'.p \in DOMAIN live)
             => FreeKeepsNodeStates(last'.p)
       /\ (last'.call = "malloc" /\ ops' = ops + 1)
             => AllocKeepsNodeStates(last'.n)]_vars

\* A sequence without its entries equal to n.
Remove(q, n) == SelectSeq(q, LAMBDA x : x # n)

C29_BlockSizes ==
    \A h \in Range(HeapHeaders(mem, g_heap_lo, g_heap_hi)) :
        /\ get_value(mem, h) % ALIGN \in {0, 1}
        /\ get_size(mem, h) >= MIN_BLOCK_SIZE

=============================================================================
